---- MODULE Spec2Model ----
(***************************************************************************)
(* Model of src/src/App.tsx (Minimalist Weather for runners and cyclists). *)
(*                                                                         *)
(* Numbers.  A JavaScript value that is either a number or undefined/null  *)
(* is modelled as a set with at most one element: {} is undefined (or      *)
(* null), {v} is the number v.  A comparison with undefined is false in    *)
(* JavaScript, and so is the bounded quantifier over the empty set.        *)
(* Temperatures, wind speeds, precipitation amounts, probabilities and air *)
(* quality indexes are counted in steps of 1/Unit, so that the model has   *)
(* values strictly between two neighbouring integers; a threshold t of the *)
(* source is t * Unit.  Times are minutes.                                 *)
(*                                                                         *)
(* State.  The component state that only feeds the display (units, city,   *)
(* the text of the search box, weatherCode) is left out.  Every action is  *)
(* a handler or the continuation of an await, run to its next await, and   *)
(* ends with the render that follows it.                                   *)
(*                                                                         *)
(* Environment.  What the build and the browser fix for a whole run        *)
(* (VITE_FARMSENSE_URL set or not, navigator.geolocation present or not,   *)
(* React batching the updates of a continuation or not) is chosen anew at  *)
(* each call, so every run of the program is a run of the model.           *)
(***************************************************************************)
EXTENDS Integers, Sequences, FiniteSets

VARIABLES
    evalIn,     \* the argument p of one call of safetyScore
    evalOut,    \* {} before the call, {the call's outcome} after it
    clsIn,      \* a pair of scores given to scoreToLevel
    clsOut,     \* {} before the calls, {<<level of 1st, level of 2nd>>} after
    fetchIn,    \* the time and the response of one call of fetchForecast
    fetchOut,   \* {} before the call, {the call's outcome} after it
    activity,   \* WeatherApp state: the selected activity
    coords,     \* WeatherApp state: the place whose coordinates are held
    pack,       \* WeatherApp state: the ForecastPack
    aqNote,     \* WeatherApp state
    loading,    \* WeatherApp state
    error,      \* WeatherApp state: {} is null, {m} the message m
    memo,       \* the cell of useMemo behind currentLevel: its deps and value
    loads,      \* the calls of load() that await Promise.all
    searching,  \* the number of calls of onSearch that await geocodeCity
    locating,   \* the number of calls of useCurrentLocation that await a position
    reversing,  \* the number of position callbacks that await reverseGeocode
    firstFix,   \* TRUE while the position request of the mount effect is pending
    mounted,    \* TRUE until the component is unmounted
    settled     \* {} or {what the call of load() that resumed in this step met}:
                \* its alive and the coordinates it fetched for, whether
                \* fetchForecast resolved, the note of fetchAirQuality, and
                \* in stored the fc it went on to blend

evalVars == <<evalIn, evalOut>>
clsVars == <<clsIn, clsOut>>
fetchVars == <<fetchIn, fetchOut>>
appVars == <<activity, coords, pack, aqNote, loading, error, memo, loads,
             searching, locating, reversing, firstFix, mounted, settled>>

\* ---------------------------------------------------------------- bounds
Unit == 2
ScoreRange == 9

\* ------------------------------------------------- JavaScript numbers
Undefined == {}
Num(v) == {v}
IsNumber(x) == x # {}
\* the number, or the object, that x holds
ValueOf(x) == CHOOSE v \in x : TRUE

\* x >= t, x <= t, x > t, x < t for a source literal t
Ge(x, t) == \E v \in x : v >= t * Unit
Le(x, t) == \E v \in x : v <= t * Unit
Gt(x, t) == \E v \in x : v > t * Unit
Lt(x, t) == \E v \in x : v < t * Unit

\* x ?? d
Coalesce(x, d) == IF x = {} THEN d ELSE x

\* ------------------------------------------------------- safetyScore
Activities == {"running", "cycling"}
Levels == {"green", "yellow", "red"}

\* faulty variant: outside the comfortable range 1 is added, and outside the
\* tolerable range 2 more
TemperatureCumulative(act, tempC) ==
    IF act = "running"
    THEN (IF Ge(tempC, 7) /\ Le(tempC, 18) THEN 0 ELSE 1)
         + (IF Ge(tempC, -5) /\ Le(tempC, 26) THEN 0 ELSE 2)
    ELSE (IF Ge(tempC, 10) /\ Le(tempC, 24) THEN 0 ELSE 1)
         + (IF Ge(tempC, 0) /\ Le(tempC, 30) THEN 0 ELSE 2)

\* the increment of `score` made by the temperature block
TemperatureBlock(act, tempC) ==
    IF act = "running"
    THEN IF Ge(tempC, 7) /\ Le(tempC, 18) THEN 0
         ELSE IF (Gt(tempC, 18) /\ Le(tempC, 26)) \/ (Ge(tempC, -5) /\ Lt(tempC, 7)) THEN 1
         ELSE 2
    ELSE IF Ge(tempC, 10) /\ Le(tempC, 24) THEN 0
         ELSE IF (Gt(tempC, 24) /\ Le(tempC, 30)) \/ (Ge(tempC, 0) /\ Lt(tempC, 10)) THEN 1
         ELSE 2

\* the increment of `score` made by the wind block
WindBlock(act, windKmh) ==
    IF act = "running"
    THEN IF Le(windKmh, 25) THEN 0
         ELSE IF Le(windKmh, 39) THEN 1
         ELSE 2
    ELSE IF Le(windKmh, 20) THEN 0
         ELSE IF Le(windKmh, 32) THEN 1
         ELSE 2

\* faulty variant: the second test is an `if`, not an `else if`
PrecipitationNoElse(precipMm, precipProb) ==
    (IF Ge(precipMm, 3) THEN 2 ELSE 0)
    + (IF Ge(precipMm, 1) \/ Ge(precipProb, 50) THEN 1 ELSE 0)

\* faulty variant: the probability test is strict
PrecipitationStrictProb(precipMm, precipProb) ==
    IF Ge(precipMm, 3) THEN 2
    ELSE IF Ge(precipMm, 1) \/ Gt(precipProb, 50) THEN 1
    ELSE 0

\* the increment of `score` made by the precipitation block
PrecipitationBlock(precipMm, precipProb) ==
    IF Ge(precipMm, 3) THEN 2
    ELSE IF Ge(precipMm, 1) \/ Ge(precipProb, 50) THEN 1
    ELSE 0

\* faulty variant: a missing index counts as the worst case
AirQualityWorstCase(aqiUS) ==
    IF IsNumber(aqiUS)
    THEN IF Le(aqiUS, 50) THEN 0
         ELSE IF Le(aqiUS, 100) THEN 1
         ELSE 2
    ELSE 2

\* faulty variant: the first test is strict
AirQualityStrict(aqiUS) ==
    IF IsNumber(aqiUS)
    THEN IF Lt(aqiUS, 50) THEN 0
         ELSE IF Le(aqiUS, 100) THEN 1
         ELSE 2
    ELSE 0

\* the increment of `score` made by the air quality block
AirQualityBlock(aqiUS) ==
    IF IsNumber(aqiUS)
    THEN IF Le(aqiUS, 50) THEN 0
         ELSE IF Le(aqiUS, 100) THEN 1
         ELSE 2
    ELSE 0

\* the four increments of the local `score`, in the order they are made
ScoreSteps(p) ==
    << TemperatureBlock(p.activity, p.tempC),
       WindBlock(p.activity, p.windKmh),
       PrecipitationBlock(p.precipMm, p.precipProb),
       AirQualityBlock(p.aqiUS) >>

safetyScore(p) ==
    LET st == ScoreSteps(p) IN 0 + st[1] + st[2] + st[3] + st[4]

\* faulty variant: the first threshold is strict
ScoreToLevelStrict(score) ==
    IF score < 2 THEN "green"
    ELSE IF score <= 4 THEN "yellow"
    ELSE "red"

\* faulty variant: the second comparison is turned around
ScoreToLevelTurned(score) ==
    IF score <= 2 THEN "green"
    ELSE IF score >= 4 THEN "yellow"
    ELSE "red"

scoreToLevel(score) ==
    IF score <= 2 THEN "green"
    ELSE IF score <= 4 THEN "yellow"
    ELSE "red"

levelLabel(level) ==
    IF level = "green" THEN "Ideal for outdoors"
    ELSE IF level = "yellow" THEN "Caution advised"
    ELSE "Not recommended"

\* p without its aqiUS property
WithoutAqi(p) == [p EXCEPT !.aqiUS = Undefined]

\* ------------------------------------------------ inputs of the evaluator
\* the values next to each threshold of the rule table, and undefined
Around(ts) == {Num(t * Unit + d) : t \in ts, d \in {-1, 0, 1}}
TempInputs == Around({-5, 0, 7, 10, 18, 24, 26, 30}) \cup {Undefined}
WindInputs == Around({20, 25, 32, 39}) \cup {Undefined}
PrecipMmInputs == {Num(-1), Num(Unit - 1), Num(Unit), Num(3 * Unit - 1), Num(3 * Unit), Undefined}
PrecipProbInputs == {Num(50 * Unit - 1), Num(50 * Unit), Num(101 * Unit)}
AqiInputs == {Undefined, Num(-1), Num(50 * Unit), Num(50 * Unit + 1), Num(100 * Unit), Num(100 * Unit + 1)}

Readings ==
    [activity : Activities, tempC : TempInputs, windKmh : WindInputs,
     precipMm : PrecipMmInputs, precipProb : PrecipProbInputs, aqiUS : AqiInputs]

ScoreInputs == (0 - ScoreRange) .. ScoreRange

\* ------------------------------------------------------- fetchForecast
HoursShown == 12     \* Array.from({ length: 12 })
HalfHour == 30       \* 30 * 60 * 1000 ms, in minutes
HourlyStep == 60     \* the forecast is requested as an hourly series

MaxHours == 14       \* longest hourly series of a response
MaxStart == 2        \* latest hour of the series the fetch time falls into
MaxInFlight == 2     \* most requests (forecast, geocoding, position) awaited at once

Max(m, n) == IF m >= n THEN m ELSE n
Min(m, n) == IF m <= n THEN m ELSE n

\* arr[k] of a JavaScript array, k counted from 0: undefined outside it
Elem(arr, k) == IF k + 1 \in DOMAIN arr THEN arr[k + 1] ELSE Undefined

\* times.findIndex(iso => new Date(iso).getTime() >= now.getTime() - 30 * 60 * 1000)
FindIndexNow(times, now) ==
    LET hits == {k \in 0 .. Len(times) - 1 : \E t \in Elem(times, k) : t >= now - HalfHour}
    IN  IF hits = {} THEN -1 ELSE CHOOSE k \in hits : \A m \in hits : k <= m

\* the object built for index k of the hourly arrays
HourPointAt(hourly, k) ==
    [time       |-> Elem(hourly.time, k),
     tempC      |-> Elem(hourly.temperature_2m, k),
     precipMm   |-> Elem(hourly.precipitation, k),
     precipProb |-> Coalesce(Elem(hourly.precipitation_probability, k), Num(0)),
     windKmh    |-> Elem(hourly.windspeed_10m, k)]

\* Boolean(x) of an object x
Truthy(h) == TRUE

\* faulty variant: the series is collected from the hour after the one found
Next12FromNextHour(hourly, now) ==
    LET start == Max(0, FindIndexNow(hourly.time, now)) + 1
    IN  SelectSeq([i \in 1 .. HoursShown |-> HourPointAt(hourly, start + (i - 1))], Truthy)

\* next12: Array.from({ length: 12 }).map(...).filter(Boolean)
Next12(hourly, now) ==
    LET idxNow == FindIndexNow(hourly.time, now)
        start == Max(0, idxNow)
    IN  SelectSeq([i \in 1 .. HoursShown |-> HourPointAt(hourly, start + (i - 1))], Truthy)

\* curr
CurrentOf(j) ==
    IF j.current_weather # {}
    THEN {[tempC |-> cw.temperature, windKmh |-> cw.windspeed] : cw \in j.current_weather}
    ELSE {}

\* The outcome of fetchForecast at time `now` on the response `resp`: the
\* ForecastPack it resolves to, or the message of the error it rejects with.
fetchForecast(now, resp) ==
    IF resp.status = "network"
    THEN [ok |-> FALSE, message |-> "Failed to fetch", current |-> {}, next12h |-> <<>>]
    ELSE IF resp.status = "http"
    THEN [ok |-> FALSE, message |-> "Weather fetch failed", current |-> {}, next12h |-> <<>>]
    ELSE [ok |-> TRUE, message |-> "", current |-> CurrentOf(resp.j),
          next12h |-> Next12(resp.j.hourly, now)]

\* ------------------------------------------------- forecast responses
\* Hourly values of a response: the hour k of the series with seed s takes
\* the ((s + k) mod length)-th value of each list.
TempSeries == <<Num(12 * Unit), Num(30 * Unit + 1), Num(-10 * Unit), Num(18 * Unit), Num(5 * Unit)>>
WindSeries == <<Num(10 * Unit), Num(45 * Unit), Num(25 * Unit)>>
PrecipSeries == <<Num(0), Num(5 * Unit), Num(Unit), Num(0)>>
ProbSeries == <<Num(0), Num(90 * Unit), Num(50 * Unit), Undefined, Num(10 * Unit), Num(0), Num(60 * Unit)>>
Seeds == 0 .. 2

Pick(series, s, k) == series[((s + k) % Len(series)) + 1]

HourlyOf(n, s) ==
    [time                      |-> [k \in 1 .. n |-> Num(HourlyStep * (k - 1))],
     temperature_2m            |-> [k \in 1 .. n |-> Pick(TempSeries, s, k)],
     precipitation             |-> [k \in 1 .. n |-> Pick(PrecipSeries, s, k)],
     precipitation_probability |-> [k \in 1 .. n |-> Pick(ProbSeries, s, k)],
     windspeed_10m             |-> [k \in 1 .. n |-> Pick(WindSeries, s, k)]]

CurrentWeatherOf(s) ==
    {[temperature |-> Pick(TempSeries, s, 2), windspeed |-> Pick(WindSeries, s, 2)]}

NoHours == HourlyOf(0, 0)

\* the responses to the forecast request with a series of a length in `lengths`
ForecastResponses(lengths) ==
    {[status |-> "ok", j |-> [hourly |-> HourlyOf(n, s), current_weather |-> cw]] :
        n \in lengths, s \in Seeds, cw \in {{}, CurrentWeatherOf(0)}}
    \cup {[status |-> st, j |-> [hourly |-> NoHours, current_weather |-> {}]] :
        st \in {"http", "network"}}

\* fetch times: on and just after the half of each of the first hours
NowInputs == {HalfHour + HourlyStep * h + d : h \in 0 .. MaxStart, d \in {0, 1}}

\* ------------------------------------------------------- fetchAirQuality
Abs(n) == IF n >= 0 THEN n ELSE 0 - n

\* hourly indexes sent by the air-quality sources, null in one hour
AqiSeries == <<Num(40 * Unit), Num(120 * Unit), Undefined, Num(80 * Unit)>>

OpenMeteoAqBody ==
    [hourly |-> [time   |-> [k \in 1 .. Len(AqiSeries) |-> Num(HourlyStep * (k - 1))],
                 us_aqi |-> AqiSeries]]

FarmsenseBody ==
    [aqi_us |-> Undefined,
     aqi    |-> Num(30 * Unit),
     hourly |-> [k \in 1 .. Len(AqiSeries) |->
                    [time |-> Num(HourlyStep * (k - 1)), aqi_us |-> Pick(AqiSeries, 1, k)]]]

\* what the two requests of fetchAirQuality can meet: VITE_FARMSENSE_URL
\* unset, or its request failed or answered; the Open-Meteo request failed
\* or answered
AirQualityInputs ==
    {in \in [farmsense : {"unset", "failed", "ok"}, om : {"none", "failed", "ok"}] :
        in.om = "none" <=> in.farmsense = "ok"}

\* the Record<string, number> built from the times and the values that are numbers
PerHourOf(times, values) ==
    LET idx == {i \in 1 .. Len(times) : times[i] # {} /\ IsNumber(Elem(values, i - 1))}
    IN  [t \in {ValueOf(times[i]) : i \in idx} |->
            LET last == CHOOSE i \in idx :
                            /\ ValueOf(times[i]) = t
                            /\ \A m \in idx : ValueOf(times[m]) = t => m <= i
            IN  ValueOf(values[last])]

\* pick nearest hour to now
NearestAqi(times, aqi, now) ==
    IF Len(times) = 0 THEN Undefined
    ELSE LET diff(i) == Abs(ValueOf(times[i]) - now)
             best == CHOOSE i \in 1 .. Len(times) :
                        /\ \A m \in 1 .. Len(times) : diff(i) <= diff(m)
                        /\ \A m \in 1 .. i - 1 : diff(m) > diff(i)
         IN  Elem(aqi, best - 1)

\* faulty variant: the catch returns an index of -1 in place of null
AirQualitySentinel ==
    [currentAQI |-> Num(-1), perHourAQI |-> <<>>, note |-> "Air quality unavailable"]

\* the value returned by the last catch
AirQualityUnavailable ==
    [currentAQI |-> Undefined, perHourAQI |-> <<>>, note |-> "Air quality unavailable"]

fetchAirQuality(now, aqIn) ==
    IF aqIn.farmsense = "ok"
    THEN [currentAQI |-> Coalesce(Coalesce(FarmsenseBody.aqi_us, FarmsenseBody.aqi), Undefined),
          perHourAQI |-> PerHourOf([k \in DOMAIN FarmsenseBody.hourly |-> FarmsenseBody.hourly[k].time],
                                   [k \in DOMAIN FarmsenseBody.hourly |-> FarmsenseBody.hourly[k].aqi_us]),
          note |-> "Using Farmsense endpoint"]
    ELSE IF aqIn.om = "ok"
    THEN [currentAQI |-> NearestAqi(OpenMeteoAqBody.hourly.time, OpenMeteoAqBody.hourly.us_aqi, now),
          perHourAQI |-> PerHourOf(OpenMeteoAqBody.hourly.time, OpenMeteoAqBody.hourly.us_aqi),
          note |-> "Using Open-Meteo Air Quality"]
    ELSE AirQualityUnavailable

\* ------------------------------------------------------------ WeatherApp
Places == {"New York", "Boston"}
Queries == {"", " ", "Boston"}
Trim(q) == IF q = " " THEN "" ELSE q

\* useState<ForecastPack>({ current: null, next12h: [] })
InitialPack == [current |-> {}, next12h |-> <<>>]

\* perHourAQI[h.time]
Lookup(perHourAQI, time) ==
    IF time # {} /\ ValueOf(time) \in DOMAIN perHourAQI
    THEN Num(perHourAQI[ValueOf(time)])
    ELSE Undefined

\* Blend AQI into hourly points and current
Blend(fc, aq) ==
    [current |-> {[tempC |-> c.tempC, windKmh |-> c.windKmh,
                   aqiUS |-> Coalesce(aq.currentAQI, Undefined)] : c \in fc.current},
     next12h |-> [i \in 1 .. Len(fc.next12h) |->
                    LET h == fc.next12h[i]
                    IN  [time |-> h.time, tempC |-> h.tempC, precipMm |-> h.precipMm,
                         precipProb |-> h.precipProb, windKmh |-> h.windKmh,
                         aqiUS |-> Coalesce(Lookup(aq.perHourAQI, h.time), Undefined)]]]

\* the argument of safetyScore in currentLevel
CurrentReading(pk, act) ==
    LET c == ValueOf(pk.current)
        first == IF Len(pk.next12h) > 0 THEN {pk.next12h[1]} ELSE {}   \* pack.next12h[0]?.
    IN  [activity   |-> act,
         tempC      |-> c.tempC,
         windKmh    |-> c.windKmh,
         precipMm   |-> Coalesce(UNION {h.precipMm : h \in first}, Num(0)),
         precipProb |-> Coalesce(UNION {h.precipProb : h \in first}, Num(0)),
         aqiUS      |-> Coalesce(c.aqiUS, Undefined)]

\* the argument of safetyScore in the card of the hourly point h
CardReading(h, act) ==
    [activity |-> act, tempC |-> h.tempC, windKmh |-> h.windKmh,
     precipMm |-> h.precipMm, precipProb |-> h.precipProb,
     aqiUS |-> Coalesce(h.aqiUS, Undefined)]

\* the function given to useMemo
ComputeCurrentLevel(pk, act) ==
    IF pk.current = {} THEN "null"
    ELSE scoreToLevel(safetyScore(CurrentReading(pk, act)))

\* faulty variant: the dependency list leaves out activity
MemoDepsWithoutActivity(pk, act) == <<pk.current, pk.next12h>>

\* [pack.current, pack.next12h, activity].  React compares the two objects
\* by identity; the model compares them by value, which gives the same
\* currentLevel: objects of equal value give equal results of the function.
MemoDeps(pk, act) == <<pk.current, pk.next12h, act>>

\* useMemo in a render with the state (pk, act)
UseMemo(cell, pk, act) ==
    IF cell.deps = MemoDeps(pk, act) THEN cell
    ELSE [deps |-> MemoDeps(pk, act), value |-> ComputeCurrentLevel(pk, act)]

\* the number of awaited requests: those of the pending calls of load(),
\* onSearch and useCurrentLocation and of the mount effect
InFlight ==
    Len(loads) + searching + locating + reversing + (IF firstFix THEN 1 ELSE 0)

\* an array of load records without its i-th
Without(seq, i) == [k \in 1 .. Len(seq) - 1 |-> IF k < i THEN seq[k] ELSE seq[k + 1]]

\* faulty variant: the cleanup clears the interval and leaves alive as it is
CleanupOnlyClearsInterval(ls) == ls

\* cleanup of the effect: alive = false in its closure
Cleanup(ls) == [k \in 1 .. Len(ls) |-> [ls[k] EXCEPT !.alive = FALSE]]

NewLoad(c) == [alive |-> TRUE, coords |-> c]

\* setCoords(c) by a handler that awaited a request and then sets loading
\* to `after` ({} when it does not set it): with other coordinates the
\* effect is cleaned up and runs again, and its load() does
\* setLoading(true); setError(null).  When
\* the handler goes on to setLoading(false) in the same continuation, the
\* effect runs after that call if React batches the updates of the
\* continuation, and before it if React renders at every update.
SetCoords(c, after, batched) ==
    /\ coords' = c
    /\ IF c # coords
       THEN /\ loads' = Append(Cleanup(loads), NewLoad(c))
            /\ error' = {}
            /\ loading' = IF after = {} \/ batched THEN TRUE ELSE ValueOf(after)
       ELSE /\ loads' = loads
            /\ error' = error
            /\ loading' = IF after = {} THEN loading ELSE ValueOf(after)

\* every handler ends in a render
Rendered == memo' = UseMemo(memo, pack', activity')

harness == <<evalVars, clsVars, fetchVars>>

\* ActivityToggle: onChange(a)
SetActivity(a) ==
    /\ mounted
    /\ activity' = a
    /\ settled' = {}
    /\ UNCHANGED <<coords, pack, aqNote, loading, error, loads,
                   searching, locating, reversing, firstFix, mounted, harness>>
    /\ Rendered

\* setInterval(load, 10 * 60 * 1000) fires: load() up to its await
Tick ==
    /\ mounted
    /\ InFlight < MaxInFlight
    /\ loads' = Append(loads, NewLoad(coords))
    /\ loading' = TRUE
    /\ error' = {}
    /\ settled' = {}
    /\ UNCHANGED <<activity, coords, pack, aqNote,
                   searching, locating, reversing, firstFix, mounted, harness>>
    /\ Rendered

\* what the log keeps of a call of load() that resumes with fc and aq
Resumed(l, fc, aq) ==
    [alive |-> l.alive, coords |-> l.coords, forecast |-> fc.ok, note |-> aq.note,
     stored |-> IF fc.ok /\ l.alive THEN {fc} ELSE {}]

\* Promise.all of the i-th pending load() settles and load() runs to its end
\* with the results fc of fetchForecast and aq of fetchAirQuality
LoadSettles(i, fc, aq) ==
        /\ mounted
        /\ loads' = Without(loads, i)
        /\ settled' = {Resumed(loads[i], fc, aq)}
        /\ IF ~fc.ok
           THEN /\ error' = {fc.message}
                /\ UNCHANGED <<pack, aqNote>>
           ELSE IF ~loads[i].alive
           THEN UNCHANGED <<pack, aqNote, error>>
           ELSE /\ pack' = Blend(fc, aq)
                /\ aqNote' = aq.note
                /\ error' = error
        /\ loading' = FALSE
        /\ UNCHANGED <<activity, coords, searching, locating, reversing, firstFix, mounted, harness>>
        /\ Rendered

\* onSearch up to its await; the Go button is disabled while loading
OnSearch(q) ==
    /\ mounted
    /\ ~loading
    /\ Trim(q) # ""
    /\ InFlight < MaxInFlight
    /\ searching' = searching + 1
    /\ loading' = TRUE
    /\ error' = {}
    /\ settled' = {}
    /\ UNCHANGED <<activity, coords, pack, aqNote, loads,
                   locating, reversing, firstFix, mounted, harness>>
    /\ Rendered

\* geocodeCity resolves to the place g and onSearch runs to its end
SearchFound(g, batched) ==
    /\ mounted
    /\ searching > 0
    /\ searching' = searching - 1
    /\ SetCoords(g, {FALSE}, batched)
    /\ settled' = {}
    /\ UNCHANGED <<activity, pack, aqNote, locating, reversing, firstFix, mounted, harness>>
    /\ Rendered

\* geocodeCity rejects and onSearch runs to its end
SearchFailed(message) ==
    /\ mounted
    /\ searching > 0
    /\ searching' = searching - 1
    /\ error' = {message}
    /\ loading' = FALSE
    /\ settled' = {}
    /\ UNCHANGED <<activity, coords, pack, aqNote, loads,
                   locating, reversing, firstFix, mounted, harness>>
    /\ Rendered

\* useCurrentLocation; the button is disabled while loading
UseCurrentLocation(supported) ==
    /\ mounted
    /\ ~loading
    /\ IF ~supported
       THEN /\ error' = {"Geolocation not supported in this browser"}
            /\ UNCHANGED <<loading, locating>>
       ELSE /\ InFlight < MaxInFlight
            /\ locating' = locating + 1
            /\ loading' = TRUE
            /\ error' = {}
    /\ settled' = {}
    /\ UNCHANGED <<activity, coords, pack, aqNote, loads,
                   searching, reversing, firstFix, mounted, harness>>
    /\ Rendered

\* the success callback of useCurrentLocation up to its await
PositionFound(c) ==
    /\ mounted
    /\ locating > 0
    /\ c # coords => InFlight < MaxInFlight
    /\ locating' = locating - 1
    /\ reversing' = reversing + 1
    /\ SetCoords(c, {}, FALSE)
    /\ settled' = {}
    /\ UNCHANGED <<activity, pack, aqNote, searching, firstFix, mounted, harness>>
    /\ Rendered

\* reverseGeocode resolves and the success callback runs to its end
ReverseGeocoded ==
    /\ mounted
    /\ reversing > 0
    /\ reversing' = reversing - 1
    /\ loading' = FALSE
    /\ settled' = {}
    /\ UNCHANGED <<activity, coords, pack, aqNote, error, loads,
                   searching, locating, firstFix, mounted, harness>>
    /\ Rendered

\* the error callback of useCurrentLocation
PositionFailed ==
    /\ mounted
    /\ locating > 0
    /\ locating' = locating - 1
    /\ error' = {"Failed to get current location"}
    /\ loading' = FALSE
    /\ settled' = {}
    /\ UNCHANGED <<activity, coords, pack, aqNote, loads,
                   searching, reversing, firstFix, mounted, harness>>
    /\ Rendered

\* the callbacks of the position request made by the mount effect
FirstPosition(c) ==
    /\ mounted
    /\ firstFix
    /\ firstFix' = FALSE
    /\ SetCoords(c, {}, FALSE)
    /\ settled' = {}
    /\ UNCHANGED <<activity, pack, aqNote, searching, locating, reversing, mounted, harness>>
    /\ Rendered

FirstPositionFailed ==
    /\ mounted
    /\ firstFix
    /\ firstFix' = FALSE
    /\ settled' = {}
    /\ UNCHANGED <<activity, coords, pack, aqNote, loading, error, loads,
                   searching, locating, reversing, mounted, harness>>
    /\ Rendered

\* the component is unmounted: the cleanup of the load effect runs; the
\* buttons and the interval are gone, the awaited requests are not
Unmount ==
    /\ mounted
    /\ mounted' = FALSE
    /\ loads' = Cleanup(loads)
    /\ settled' = {}
    /\ UNCHANGED <<activity, coords, pack, aqNote, loading, error, memo,
                   searching, locating, reversing, firstFix, harness>>

\* load() resumes after the unmount: alive is false, and React drops the
\* state updates of its catch and finally blocks
LoadSettlesUnmounted(i, fc, aq) ==
    /\ ~mounted
    /\ loads' = Without(loads, i)
    /\ settled' = {Resumed(loads[i], fc, aq)}
    /\ UNCHANGED <<activity, coords, pack, aqNote, loading, error, memo,
                   searching, locating, reversing, firstFix, mounted, harness>>

\* a continuation of onSearch, of useCurrentLocation or of the mount effect
\* runs after the unmount: React drops its state updates; the success
\* callback of useCurrentLocation still goes on to await reverseGeocode
Awaited == {"geocodeCity", "position", "positionError", "reverseGeocode", "firstPosition"}

ContinuesUnmounted(k) ==
    /\ ~mounted
    /\ searching' = IF k = "geocodeCity" THEN searching - 1 ELSE searching
    /\ locating' = IF k \in {"position", "positionError"} THEN locating - 1 ELSE locating
    /\ reversing' = IF k = "position" THEN reversing + 1
                    ELSE IF k = "reverseGeocode" THEN reversing - 1
                    ELSE reversing
    /\ firstFix' = IF k = "firstPosition" THEN FALSE ELSE firstFix
    /\ searching' >= 0 /\ locating' >= 0 /\ reversing' >= 0
    /\ k = "firstPosition" => firstFix
    /\ settled' = {}
    /\ UNCHANGED <<activity, coords, pack, aqNote, loading, error, memo, loads,
                   mounted, harness>>

\* the responses and fetch times of the loads
AppLengths == {0, HoursShown + 1}
AppResponses ==
    {r \in ForecastResponses(AppLengths) :
        /\ r.status # "network"
        /\ r.j.hourly = HourlyOf(Len(r.j.hourly.time), 0)}
AppNows == {HalfHour + 1}

\* what the two calls awaited by load() can come to
LoadResults ==
    {[fc |-> fetchForecast(now, resp), aq |-> fetchAirQuality(now, aqIn)] :
        now \in AppNows, resp \in AppResponses, aqIn \in AirQualityInputs}

Next ==
    \/ \E a \in Activities : SetActivity(a)
    \/ Tick
    \/ \E i \in 1 .. Len(loads), r \in LoadResults : LoadSettles(i, r.fc, r.aq)
    \/ \E q \in Queries : OnSearch(q)
    \/ \E g \in Places, batched \in BOOLEAN : SearchFound(g, batched)
    \/ SearchFailed("No results for that place")
    \/ \E supported \in BOOLEAN : UseCurrentLocation(supported)
    \/ \E c \in Places : PositionFound(c)
    \/ ReverseGeocoded
    \/ PositionFailed
    \/ \E c \in Places : FirstPosition(c)
    \/ FirstPositionFailed
    \/ Unmount
    \/ \E i \in 1 .. Len(loads), r \in LoadResults : LoadSettlesUnmounted(i, r.fc, r.aq)
    \/ \E k \in Awaited : ContinuesUnmounted(k)

\* ------------------------------------------------------ evaluator runs
\* the reading and the scores of a run that makes no call
NoReading ==
    [activity |-> "running", tempC |-> Undefined, windKmh |-> Undefined,
     precipMm |-> Undefined, precipProb |-> Num(0), aqiUS |-> Undefined]
NoScores == <<0, 0>>
NoFetch == [now |-> 0, resp |-> [status |-> "network", j |-> [hourly |-> NoHours, current_weather |-> {}]]]

\* safetyScore(p) followed by scoreToLevel, as the render does for every card;
\* `bare` is the score of the same reading passed without an aqiUS property
Evaluate ==
    /\ evalOut = {}
    /\ evalOut' = {[steps |-> ScoreSteps(evalIn),
                    score |-> safetyScore(evalIn),
                    level |-> scoreToLevel(safetyScore(evalIn)),
                    bare  |-> safetyScore(WithoutAqi(evalIn))]}
    /\ UNCHANGED <<evalIn, clsVars, fetchVars, appVars>>

Classify ==
    /\ clsOut = {}
    /\ clsOut' = {<<scoreToLevel(clsIn[1]), scoreToLevel(clsIn[2])>>}
    /\ UNCHANGED <<clsIn, evalVars, fetchVars, appVars>>

\* one call of fetchForecast
FetchForecast ==
    /\ fetchOut = {}
    /\ fetchOut' = {fetchForecast(fetchIn.now, fetchIn.resp)}
    /\ UNCHANGED <<fetchIn, evalVars, clsVars, appVars>>

vars == <<evalVars, clsVars, fetchVars, appVars>>

\* the component once mounted: both effects have run, load() awaits
Init ==
    /\ activity \in Activities
    /\ coords \in Places
    /\ pack = InitialPack
    /\ aqNote = ""
    /\ loading = TRUE
    /\ error = {}
    /\ memo = [deps |-> MemoDeps(InitialPack, activity), value |-> ComputeCurrentLevel(InitialPack, activity)]
    /\ loads = <<NewLoad(coords)>>
    /\ searching = 0
    /\ locating = 0
    /\ reversing = 0
    /\ firstFix \in BOOLEAN
    /\ mounted = TRUE
    /\ settled = {}
    /\ evalIn = NoReading
    /\ evalOut = {}
    /\ clsIn = NoScores
    /\ clsOut = {}
    /\ fetchIn = NoFetch
    /\ fetchOut = {}

InitEval ==
    /\ evalIn \in Readings
    /\ evalOut = {}
    /\ clsIn = NoScores
    /\ clsOut = {}
    /\ fetchIn = NoFetch
    /\ fetchOut = {}
    /\ activity = "running"
    /\ coords = "New York"
    /\ pack = InitialPack
    /\ aqNote = ""
    /\ loading = FALSE
    /\ error = {}
    /\ memo = [deps |-> MemoDeps(InitialPack, "running"), value |-> "null"]
    /\ loads = <<>>
    /\ searching = 0
    /\ locating = 0
    /\ reversing = 0
    /\ firstFix = FALSE
    /\ mounted = FALSE
    /\ settled = {}

InitLevel ==
    /\ clsIn \in ScoreInputs \X ScoreInputs
    /\ clsOut = {}
    /\ evalIn = NoReading
    /\ evalOut = {}
    /\ fetchIn = NoFetch
    /\ fetchOut = {}
    /\ activity = "running"
    /\ coords = "New York"
    /\ pack = InitialPack
    /\ aqNote = ""
    /\ loading = FALSE
    /\ error = {}
    /\ memo = [deps |-> MemoDeps(InitialPack, "running"), value |-> "null"]
    /\ loads = <<>>
    /\ searching = 0
    /\ locating = 0
    /\ reversing = 0
    /\ firstFix = FALSE
    /\ mounted = FALSE
    /\ settled = {}

InitFetch ==
    /\ fetchIn \in [now : NowInputs, resp : ForecastResponses(0 .. MaxHours)]
    /\ fetchOut = {}
    /\ evalIn = NoReading
    /\ evalOut = {}
    /\ clsIn = NoScores
    /\ clsOut = {}
    /\ activity = "running"
    /\ coords = "New York"
    /\ pack = InitialPack
    /\ aqNote = ""
    /\ loading = FALSE
    /\ error = {}
    /\ memo = [deps |-> MemoDeps(InitialPack, "running"), value |-> "null"]
    /\ loads = <<>>
    /\ searching = 0
    /\ locating = 0
    /\ reversing = 0
    /\ firstFix = FALSE
    /\ mounted = FALSE
    /\ settled = {}

Spec == Init /\ [][Next]_vars
SpecEval == InitEval /\ [][Evaluate]_vars
SpecLevel == InitLevel /\ [][Classify]_vars
SpecFetch == InitFetch /\ [][FetchForecast]_vars

\* ------------------------------------------------------------ the rule table
\* The rule table as the specification words it, over the value v of a number.
Within(v, lo, hi) == lo * Unit <= v /\ v <= hi * Unit      \* [lo, hi]
LeftOpen(v, lo, hi) == lo * Unit < v /\ v <= hi * Unit     \* (lo, hi]
RightOpen(v, lo, hi) == lo * Unit <= v /\ v < hi * Unit    \* [lo, hi)

RuleTemperature(act, x) ==
    IF x = {} THEN 2
    ELSE LET v == ValueOf(x) IN
         IF act = "running"
         THEN CASE Within(v, 7, 18) -> 0
                [] LeftOpen(v, 18, 26) \/ RightOpen(v, -5, 7) -> 1
                [] OTHER -> 2
         ELSE CASE Within(v, 10, 24) -> 0
                [] LeftOpen(v, 24, 30) \/ RightOpen(v, 0, 10) -> 1
                [] OTHER -> 2

RuleWind(act, x) ==
    IF x = {} THEN 2
    ELSE LET v == ValueOf(x)
             calm == IF act = "running" THEN 25 ELSE 20
             breezy == IF act = "running" THEN 39 ELSE 32
         IN  CASE v <= calm * Unit -> 0
               [] v > calm * Unit /\ v <= breezy * Unit -> 1
               [] OTHER -> 2

AtLeast(x, t) == x # {} /\ ValueOf(x) >= t * Unit

RulePrecipitation(mm, prob) ==
    CASE AtLeast(mm, 3) -> 2
      [] ~AtLeast(mm, 3) /\ (AtLeast(mm, 1) \/ AtLeast(prob, 50)) -> 1
      [] OTHER -> 0

RuleAirQuality(x) ==
    IF x = {} THEN 0
    ELSE LET v == ValueOf(x) IN
         CASE v <= 50 * Unit -> 0
           [] v > 50 * Unit /\ v <= 100 * Unit -> 1
           [] OTHER -> 2

RuleSum(p) ==
    RuleTemperature(p.activity, p.tempC) + RuleWind(p.activity, p.windKmh)
    + RulePrecipitation(p.precipMm, p.precipProb) + RuleAirQuality(p.aqiUS)

\* the outcome of the call, once made
Out == ValueOf(evalOut)
Evaluated == evalOut # {}

\* C1: for every reading, safetyScore returns exactly the sum of the four
\* rule-table contributions (temperature, wind, precipitation, air quality).
C1_ScoreIsRuleTableSum ==
    Evaluated => Out.score = RuleSum(evalIn)

\* a call in which every one of the four blocks added something
C1_Witness ==
    /\ Evaluated
    /\ \A i \in 1..4 : Out.steps[i] > 0
    /\ Out.score = 6

\* C2: scoreToLevel returns green (ideal) exactly when score <= 2, yellow
\* (caution) exactly when score is 3 or 4, red (not recommended) exactly when
\* score >= 5.
C2_LevelThresholds ==
    clsOut # {} =>
        LET s == clsIn[1]
            l == ValueOf(clsOut)[1]
        IN  /\ (l = "green" <=> s <= 2)
            /\ (l = "yellow" <=> s \in {3, 4})
            /\ (l = "red" <=> s >= 5)
            /\ (levelLabel(l) = "Ideal for outdoors" <=> s <= 2)
            /\ (levelLabel(l) = "Caution advised" <=> s \in {3, 4})
            /\ (levelLabel(l) = "Not recommended" <=> s >= 5)

C2_Witness ==
    /\ clsOut # {}
    /\ clsIn = <<2, 5>>
    /\ ValueOf(clsOut) = <<"green", "red">>

\* C3: for all readings, also ones with values outside any sensible range
\* or undefined, the score is an integer between 0 and 8 and a level is
\* produced.
C3_ScoreRange ==
    Evaluated =>
        /\ Out.score \in 0..8
        /\ Out.level \in Levels

\* a call with a negative amount of precipitation, a probability above 100
\* and a negative index
C3_Witness ==
    /\ Evaluated
    /\ evalIn.precipMm = Num(-1)
    /\ evalIn.precipProb = Num(101 * Unit)
    /\ evalIn.aqiUS = Num(-1)

\* C4: the score of a reading minus the score of the same reading without
\* its index is exactly the air-quality contribution of the index, and the
\* score without an index is the sum of the other three contributions.
C4_AqiOnlyAddsItsOwn ==
    Evaluated =>
        /\ Out.score - Out.bare = RuleAirQuality(evalIn.aqiUS)
        /\ Out.bare = RuleTemperature(evalIn.activity, evalIn.tempC)
                      + RuleWind(evalIn.activity, evalIn.windKmh)
                      + RulePrecipitation(evalIn.precipMm, evalIn.precipProb)
        /\ (evalIn.aqiUS = Undefined => Out.score = Out.bare)

\* a reading whose index is worth 2, over a score of 3 without it
C4_Witness ==
    /\ Evaluated
    /\ evalIn.aqiUS = Num(100 * Unit + 1)
    /\ Out.bare = 3
    /\ Out.score = 5

\* The sub-score a reading gets at a threshold of the temperature, wind and
\* air-quality rules: the lower of the two that meet there.
At(x, t) == x = Num(t * Unit)

LowerAtTempWindAqi ==
    /\ (evalIn.activity = "running" =>
          /\ (At(evalIn.tempC, -5) => Out.steps[1] = 1)
          /\ (At(evalIn.tempC, 7) => Out.steps[1] = 0)
          /\ (At(evalIn.tempC, 18) => Out.steps[1] = 0)
          /\ (At(evalIn.tempC, 26) => Out.steps[1] = 1)
          /\ (At(evalIn.windKmh, 25) => Out.steps[2] = 0)
          /\ (At(evalIn.windKmh, 39) => Out.steps[2] = 1))
    /\ (evalIn.activity = "cycling" =>
          /\ (At(evalIn.tempC, 0) => Out.steps[1] = 1)
          /\ (At(evalIn.tempC, 10) => Out.steps[1] = 0)
          /\ (At(evalIn.tempC, 24) => Out.steps[1] = 0)
          /\ (At(evalIn.tempC, 30) => Out.steps[1] = 1)
          /\ (At(evalIn.windKmh, 20) => Out.steps[2] = 0)
          /\ (At(evalIn.windKmh, 32) => Out.steps[2] = 1))
    /\ (At(evalIn.aqiUS, 50) => Out.steps[4] = 0)
    /\ (At(evalIn.aqiUS, 100) => Out.steps[4] = 1)

\* below 1 mm the amount adds nothing by itself, below 50 neither does the
\* probability
Dry(mm) == ~AtLeast(mm, 1)
Unlikely(prob) == ~AtLeast(prob, 50)

\* C5 as claimed: at every threshold of the rule table, those of the
\* precipitation rule included, the reading gets the lower of the two
\* sub-scores that meet there (0 at 1 mm, 1 at 3 mm, 0 at probability 50).
C5_Original_LowerAtEveryThreshold ==
    Evaluated =>
        /\ LowerAtTempWindAqi
        /\ (At(evalIn.precipMm, 3) => Out.steps[3] = 1)
        /\ (At(evalIn.precipMm, 1) /\ Unlikely(evalIn.precipProb) => Out.steps[3] = 0)
        /\ (At(evalIn.precipProb, 50) /\ Dry(evalIn.precipMm) => Out.steps[3] = 0)

\* C5 (amended): at a threshold of the temperature, wind or air-quality
\* rule the reading gets the lower of the two sub-scores that meet there; at
\* a threshold of the precipitation rule it gets the higher one: 2 at
\* exactly 3 mm, 1 at exactly 1 mm, 1 at probability exactly 50 with less
\* than 1 mm.
C5_ThresholdTies ==
    Evaluated =>
        /\ LowerAtTempWindAqi
        /\ (At(evalIn.precipMm, 3) => Out.steps[3] = 2)
        /\ (At(evalIn.precipMm, 1) => Out.steps[3] = 1)
        /\ (At(evalIn.precipProb, 50) /\ Dry(evalIn.precipMm) => Out.steps[3] = 1)

\* a reading that sits on a threshold of each of the four rules
C5_Witness ==
    /\ Evaluated
    /\ evalIn.activity = "cycling"
    /\ At(evalIn.tempC, 30) /\ At(evalIn.windKmh, 20)
    /\ At(evalIn.precipProb, 50) /\ Dry(evalIn.precipMm)
    /\ At(evalIn.aqiUS, 100)
    /\ Out.steps = <<1, 0, 1, 1>>

\* C6: scoreToLevel is monotonic: for scores a <= b the level of a is not
\* more severe than the level of b, in the order green < yellow < red.
Severity(l) == CASE l = "green" -> 0 [] l = "yellow" -> 1 [] l = "red" -> 2

C6_LevelMonotonic ==
    (clsOut # {} /\ clsIn[1] <= clsIn[2]) =>
        Severity(ValueOf(clsOut)[1]) <= Severity(ValueOf(clsOut)[2])

C6_Witness ==
    /\ clsOut # {}
    /\ clsIn = <<3, 4>>
    /\ ValueOf(clsOut) = <<"yellow", "yellow">>

\* ---------------------------------------------------------------- C8
Fetched == ValueOf(fetchOut)
FetchedHourly == fetchIn.resp.j.hourly

\* the hours of the fetched series that are not earlier than 30 minutes
\* before the fetch time
HoursFromNow ==
    {k \in 1 .. Len(FetchedHourly.time) :
        ValueOf(FetchedHourly.time[k]) >= fetchIn.now - HalfHour}

\* the hourly point of the fetched data at position k of the series
FetchedPoint(k) ==
    [time       |-> FetchedHourly.time[k],
     tempC      |-> FetchedHourly.temperature_2m[k],
     precipMm   |-> FetchedHourly.precipitation[k],
     precipProb |-> IF FetchedHourly.precipitation_probability[k] = {} THEN Num(0)
                    ELSE FetchedHourly.precipitation_probability[k],
     windKmh    |-> FetchedHourly.windspeed_10m[k]]

\* C8: after every successful fetchForecast every entry of the hourly list
\* is a point of the fetched hourly data, none is earlier than 30 minutes
\* before the fetch time, and the entries are the consecutive hours from the
\* first hour not earlier than that, at most twelve of them: all that are
\* left when fewer than twelve are, none when there is no such hour.
C8_NextTwelveHours ==
    (fetchOut # {} /\ Fetched.ok) =>
        LET list == Fetched.next12h
            first == IF HoursFromNow = {} THEN Len(FetchedHourly.time) + 1
                     ELSE CHOOSE k \in HoursFromNow : \A m \in HoursFromNow : k <= m
            left == Len(FetchedHourly.time) + 1 - first
        IN  /\ Len(list) = Min(HoursShown, left)
            /\ \A i \in 1 .. Len(list) :
                  /\ first + (i - 1) \in HoursFromNow
                  /\ list[i] = FetchedPoint(first + (i - 1))

\* ---------------------------------------------------------------- C7
\* the call of load() that resumed in this step
Settled == ValueOf(settled)

\* that call met a forecast and no air quality
ForecastWithoutAirQuality ==
    /\ settled # {}
    /\ Settled.forecast
    /\ Settled.note = "Air quality unavailable"

\* the readings the render gives to safetyScore
RenderedReadings ==
    {CurrentReading(pack, activity) : c \in pack.current}
    \cup {CardReading(pack.next12h[i], activity) : i \in 1 .. Len(pack.next12h)}

\* every one of them has no index and scores the sum of the other three
ScoredWithoutAirQuality ==
    \A r \in RenderedReadings :
        /\ r.aqiUS = Undefined
        /\ safetyScore(r) = RuleTemperature(r.activity, r.tempC) + RuleWind(r.activity, r.windKmh)
                            + RulePrecipitation(r.precipMm, r.precipProb)

\* pack holds the forecast fc: its current conditions and its hourly points
Holds(fc) ==
    /\ {[tempC |-> c.tempC, windKmh |-> c.windKmh] : c \in pack.current} = fc.current
    /\ Len(pack.next12h) = Len(fc.next12h)
    /\ \A i \in 1 .. Len(fc.next12h) :
          LET h == pack.next12h[i]
          IN  [time |-> h.time, tempC |-> h.tempC, precipMm |-> h.precipMm,
               precipProb |-> h.precipProb, windKmh |-> h.windKmh] = fc.next12h[i]

\* C7 as claimed: every load whose forecast request succeeds while no air
\* quality can be obtained stores the forecast, and all readings then reach
\* the evaluator without an index.
C7_Original_EveryLoadStores ==
    ForecastWithoutAirQuality =>
        /\ Settled.stored # {}
        /\ aqNote = "Air quality unavailable"
        /\ ScoredWithoutAirQuality

\* C7 (amended): a load whose forecast request succeeds while no air quality
\* can be obtained sets no error; if its effect has not been cleaned up
\* (the coordinates are those it started with) it stores the forecast, and
\* the current reading and every hourly reading reach the evaluator without
\* an index, each scoring the sum of the other three contributions; if the
\* coordinates changed meanwhile it stores nothing.
C7_LoadWithoutAirQuality ==
    [][ ForecastWithoutAirQuality' =>
          /\ error' = error
          /\ IF Settled'.alive
             THEN /\ Settled'.stored # {}
                  /\ \A fc \in Settled'.stored : Holds(fc)'
                  /\ aqNote' = "Air quality unavailable"
                  /\ ScoredWithoutAirQuality'
             ELSE UNCHANGED <<pack, aqNote>> ]_vars

\* a live load that met a forecast with current conditions and real hours
\* and no air quality
C7_Witness ==
    /\ ForecastWithoutAirQuality
    /\ Settled.alive
    /\ pack.current # {}
    /\ Len(pack.next12h) = HoursShown
    /\ pack.next12h[HoursShown].time # {}
    /\ error = {}

\* --------------------------------------------------------------- C10
currentLevel == memo.value

\* the precipitation value f of the first hourly point, 0 when there is none
FirstHourOrZero(f) ==
    IF Len(pack.next12h) = 0 THEN Num(0)
    ELSE IF pack.next12h[1][f] = {} THEN Num(0)
    ELSE pack.next12h[1][f]

\* C10: in every state the displayed level is null when no current reading
\* is held, and otherwise the level of the score of the held current
\* reading (with the precipitation of the first hourly point, or 0) under
\* the selected activity.
C10_CurrentLevelIsOfHeldReading ==
    IF pack.current = {}
    THEN currentLevel = "null"
    ELSE LET c == ValueOf(pack.current)
             s == safetyScore([activity   |-> activity,
                               tempC      |-> c.tempC,
                               windKmh    |-> c.windKmh,
                               precipMm   |-> FirstHourOrZero("precipMm"),
                               precipProb |-> FirstHourOrZero("precipProb"),
                               aqiUS      |-> c.aqiUS])
         IN  currentLevel = scoreToLevel(s)

\* a level shown for cycling that differs from the one the same reading
\* has for running
C10_Witness ==
    /\ pack.current # {}
    /\ activity = "cycling"
    /\ currentLevel = "yellow"
    /\ ComputeCurrentLevel(pack, "running") = "green"

\* --------------------------------------------------------------- C11
\* a number below the threshold t
Below(x, t) == x # {} /\ ValueOf(x) < t * Unit

\* a reading with less than 1 mm, a probability below 50 and no index
DryWithoutIndex ==
    /\ Below(evalIn.precipMm, 1)
    /\ Below(evalIn.precipProb, 50)
    /\ evalIn.aqiUS = Undefined

\* both its temperature and its wind are worth 2 in the rule table
HarshTemperatureAndWind ==
    /\ RuleTemperature(evalIn.activity, evalIn.tempC) = 2
    /\ RuleWind(evalIn.activity, evalIn.windKmh) = 2

\* C11: for running and for cycling, a reading with less than 1 mm of
\* precipitation, a probability below 50 and no air-quality index scores at
\* most 4 and is never rated red (not recommended), whatever its temperature
\* and wind; when its temperature and wind sub-scores are both 2 it scores
\* exactly 4 and is rated yellow (caution).
C11_DryWithoutIndexAtMostCaution ==
    (Evaluated /\ DryWithoutIndex) =>
        /\ Out.score <= 4
        /\ Out.level # "red"
        /\ levelLabel(Out.level) # "Not recommended"
        /\ (HarshTemperatureAndWind =>
              /\ Out.score = 4
              /\ Out.level = "yellow"
              /\ levelLabel(Out.level) = "Caution advised")

\* a hot and windy dry hour for cycling, scored 2 + 2 + 0
C11_Witness ==
    /\ Evaluated
    /\ DryWithoutIndex
    /\ evalIn.activity = "cycling"
    /\ evalIn.tempC = Num(30 * Unit + 1)
    /\ evalIn.windKmh = Num(39 * Unit + 1)
    /\ Out.steps = <<2, 2, 0, 0>>
    /\ Out.level = "yellow"

\* --------------------------------------------------------------- C12
\* a pending call of load() is superseded when the coordinates are no longer
\* those it fetches for, or the component is unmounted
Superseded(l) == l.coords # coords \/ ~mounted

\* the call of load() that resumed in this step was superseded before it did
SupersededSettled ==
    /\ settled # {}
    /\ (~Settled.alive \/ Superseded(Settled))

\* C12: once the coordinates change or the component unmounts, a pending
\* load started before that is no longer alive, and when it resumes it
\* updates neither the stored forecast nor the air-quality note; whenever
\* the forecast or the note is updated, it is by a load that was started for
\* the coordinates held at that moment.
C12_SupersededLoadNeverStores ==
    /\ [](\A i \in 1 .. Len(loads) : Superseded(loads[i]) => ~loads[i].alive)
    /\ [][ /\ SupersededSettled' =>
                /\ Settled'.stored = {}
                /\ UNCHANGED <<pack, aqNote>>
           /\ (pack' # pack \/ aqNote' # aqNote) =>
                /\ settled' # {}
                /\ Settled'.alive
                /\ Settled'.stored # {}
                /\ Settled'.coords = coords
                /\ coords' = coords
                /\ mounted'
                /\ \A fc \in Settled'.stored : Holds(fc)' ]_vars

\* a load started for the earlier coordinates resumes with a forecast after
\* a load for the new coordinates has stored its own
C12_Witness ==
    /\ mounted
    /\ SupersededSettled
    /\ Settled.coords # coords
    /\ Settled.forecast
    /\ pack.current # {}
    /\ Len(pack.next12h) = HoursShown

\* --------------------------------------------------------------- C13
\* C13: once the coordinates change, a load that was started for the
\* earlier coordinates never sets the displayed error message: when it
\* resumes, whatever it met, the error stays as it was.
C13_SupersededLoadNeverSetsError ==
    [][ (mounted /\ SupersededSettled') => error' = error ]_vars

\* --------------------------------------------------------------- C14
\* a call of load() made by the effect that is in force has not resumed
LoadInFlight == \E i \in 1 .. Len(loads) : loads[i].alive /\ loads[i].coords = coords

\* C14: in every state of the mounted component in which a load started for
\* the held coordinates has not yet finished, the loading flag is true.
C14_LoadingWhileLoadInFlight ==
    (mounted /\ LoadInFlight) => loading

====
